---- MODULE Spec2Model ----
(***************************************************************************)
(* A model of syft/frameworks/torch/hook.py (class TorchHook).              *)
(*                                                                         *)
(* The state is what the hook reads and writes: the marker flag on each    *)
(* torch module, the method table of each module's native Tensor type and  *)
(* of PointerTensor, the syft-wide attributes syft.torch and               *)
(* syft.local_worker, the fields of every TorchHook object, and the        *)
(* argument-hook cache used by the functions get_overloaded_method makes.  *)
(***************************************************************************)
EXTENDS Integers, Sequences, FiniteSets, TLC

VARIABLES
    hooks,              \* the TorchHook objects built so far, in order
    torch_hooked,       \* the torch modules that carry the torch_hooked marker
    syft_torch,         \* syft.torch: index of the hook its TorchAttributes holds, 0 = unset
    syft_local_worker,  \* syft.local_worker
    worker_hook,        \* the .hook attribute of each worker passed in by a caller
    tbl,                \* tbl[m][name]: method table of module m's Tensor type
    ptrTbl,             \* method table of PointerTensor
    dirSyft,            \* the attribute names of TorchTensor, dir(syft_type)
    exclude,            \* syft.torch.exclude
    tbl0,               \* the Tensor method table as the native library defines it
    pc,                 \* position of the running TorchHook.__init__, "idle" when none
    registry,           \* what the last direct run of the eligibility test returned
    lastCall,           \* the last call of an overloaded function and its outcome
    derivations,        \* derivations[attr]: how often build_rule has run for attr
    threads             \* threads[t]: where thread t is in a call of an overloaded function

vars == <<hooks, torch_hooked, syft_torch, syft_local_worker, worker_hook, tbl,
          ptrTbl, dirSyft, exclude, tbl0, pc, registry, lastCall, derivations, threads>>

hookVars == <<hooks, torch_hooked, syft_torch, syft_local_worker, worker_hook, tbl,
              ptrTbl, dirSyft, exclude, tbl0, pc, registry>>

-----------------------------------------------------------------------------
(* Bounds *)

\* TorchHook objects constructed in one run.
MaxHooks == 3

\* Positional arguments of one call of an overloaded function.
MaxArgs == 4

\* Length of a list or tuple passed as an argument.
MaxSeqLen == 4

\* Runs of build_rule counted per operation.
MaxDerive == 2

-----------------------------------------------------------------------------
(* Names and bindings *)

\* torch module objects a TorchHook can be constructed against.
Modules == {"m1", "m2"}

\* The operations get_overloaded_method is asked to overload.
Ops == {"add", "mul"}

\* Names in dir(object): is_base holds for them.
BaseNames == {"__eq__", "__init__"}

\* Names TorchTensor may define besides those it inherits from object.
RefOptional == {"_get_type", "add", "id", "mul", "native_type"}

Names == BaseNames \cup RefOptional

\* The four properties _hook_properties installs.
PropNames == {"location", "id_at_location", "id", "is_wrapper"}

NativeName(a) == "native_" \o a

AllNames == Names \cup PropNames \cup {NativeName(a) : a \in Names}

\* dir() enumerates names in sorted order.
DirOrder == <<"__eq__", "__init__", "_get_type", "add", "id", "mul", "native_type">>

\* re.match("native*", attr): the name starts with "nativ".
IsOverloadedName(a) == a \in {"native_type"} \cup {NativeName(x) : x \in Names}

\* The exclude list of _add_methods_from__torch_tensor.
MixinExclude ==
    {"__class__", "__delattr__", "__dir__", "__doc__", "__dict__", "__format__",
     "__getattribute__", "__hash__", "__init__", "__init_subclass__", "__weakref__",
     "__ne__", "__new__", "__reduce__", "__reduce_ex__", "__setattr__", "__sizeof__",
     "__subclasshook__", "_get_type", "__str__", "__repr__", "__eq__", "__gt__",
     "__ge__", "__lt__", "__le__"}

\* What a name can be bound to on a type.
Binding(k, a, h) == [kind |-> k, of |-> a, h |-> h]
Absent == Binding("absent", "", 0)          \* the name is not defined
NonePlaceholder == Binding("none", "", 0)   \* None
Original(k, a) == Binding(k, a, 0)          \* what the native library bound to a
SyftAttr(a) == Binding("syft", a, 0)        \* getattr(TorchTensor, a)
NewInit(h) == Binding("new_init", "__init__", h)  \* new___init__ closed over hook h
Property(a) == Binding("prop", a, 0)        \* a property object
\* The function get_overloaded_method(a) of hook h returns.
OverloadedAttr(h, a) == Binding("overloaded", a, h)

\* TorchTensor attributes that are properties rather than functions.
SyftProperties == {"id"}

HasAttr(t, a) == t[a].kind # "absent"
Dir(t) == {a \in DOMAIN t : HasAttr(t, a)}

\* inspect.ismethoddescriptor(lit)
IsDesc(b) == b.kind = "desc"
\* isinstance(lit, types.FunctionType)
IsFunc(b) == \/ b.kind \in {"func", "service", "new_init"}
             \/ b.kind = "syft" /\ b.of \notin SyftProperties
\* "HookService" in lit.__qualname__
IsServiceFunc(b) == b.kind = "service"

-----------------------------------------------------------------------------
(* Workers *)

NoWorker == [kind |-> "none", id |-> 0]
GivenWorker == [kind |-> "given", id |-> 1]
VirtualWorker(h) == [kind |-> "virtual", id |-> h]
Unset == [kind |-> "unset", id |-> 0]

\* The local_worker argument of TorchHook(...).
WorkerArgs == {NoWorker, GivenWorker}

-----------------------------------------------------------------------------
(* The steps of the hook, as functions on method tables *)

\* _add_registration_to___init__(tensor_type)
AddRegistrationToInit(t, h) ==
    [t EXCEPT ![NativeName("__init__")] =
                  IF NativeName("__init__") \notin Dir(t) THEN t["__init__"] ELSE @,
              !["__init__"] = NewInit(h)]

\* _hook_properties(tensor_type)
HookProperties(t) ==
    [a \in DOMAIN t |-> IF a \in PropNames THEN Property(a) ELSE t[a]]

ShouldOverloadNoExclusion(t, a, excl) ==
    /\ HasAttr(t, a)
    /\ (IsDesc(t[a]) \/ (IsFunc(t[a]) /\ ~IsServiceFunc(t[a])))
    /\ a \notin BaseNames
    /\ ~IsOverloadedName(a)

ShouldOverloadBaseNames(t, a, excl) ==
    /\ a \notin excl
    /\ HasAttr(t, a)
    /\ (IsDesc(t[a]) \/ (IsFunc(t[a]) /\ ~IsServiceFunc(t[a])))
    /\ ~IsOverloadedName(a)

\* The test of one attr in _which_methods_should_we_auto_overload.
ShouldOverload(t, a, excl) ==
    /\ a \notin excl
    /\ HasAttr(t, a)
    /\ (IsDesc(t[a]) \/ (IsFunc(t[a]) /\ ~IsServiceFunc(t[a])))
    /\ a \notin BaseNames
    /\ ~IsOverloadedName(a)

\* dir(syft_type) as the list the loops run over.
DirList(d) == SelectSeq(DirOrder, LAMBDA a : a \in d)

\* _which_methods_should_we_auto_overload(tensor_type, syft_type)
WhichMethodsShouldWeAutoOverload(t, d, excl) ==
    SelectSeq(DirList(d), LAMBDA a : ShouldOverload(t, a, excl))

RenameOneAlways(t, a) ==
    [t EXCEPT ![NativeName(a)] = t[a], ![a] = NonePlaceholder]

\* One iteration of the loop of _rename_native_functions.
RenameOne(t, a) ==
    [t EXCEPT ![NativeName(a)] = IF NativeName(a) \notin Dir(t) THEN t[a] ELSE @,
              ![a] = NonePlaceholder]

RECURSIVE RenameLoop(_, _)
RenameLoop(t, list) ==
    IF list = <<>> THEN t ELSE RenameLoop(RenameOne(t, Head(list)), Tail(list))

\* _rename_native_functions(tensor_type)
RenameNativeFunctions(t, list) == RenameLoop(t, list)

AddMethodsKeepingDefined(t, d) ==
    [a \in DOMAIN t |->
        IF a \in d /\ a \notin MixinExclude /\ t[a].kind \in {"absent", "none"}
        THEN SyftAttr(a) ELSE t[a]]

AddMethodsNoExclude(t, d) ==
    [a \in DOMAIN t |-> IF a \in d THEN SyftAttr(a) ELSE t[a]]

\* _add_methods_from__torch_tensor(tensor_type, syft_type)
AddMethodsFromTorchTensor(t, d) ==
    [a \in DOMAIN t |-> IF a \in d /\ a \notin MixinExclude THEN SyftAttr(a) ELSE t[a]]

-----------------------------------------------------------------------------
(* Initial state *)

\* The Tensor type as the native library defines it: add and mul take each
\* of the kinds the eligibility test distinguishes, _get_type and native_type
\* are plain functions, the names of object are method descriptors.
NativeTable(kAdd, kMul) ==
    [a \in AllNames |->
        CASE a = "add" -> IF kAdd = "absent" THEN Absent ELSE Original(kAdd, a)
          [] a = "mul" -> Original(kMul, a)
          [] a \in {"_get_type", "native_type"} -> Original("func", a)
          [] a \in BaseNames -> Original("desc", a)
          [] OTHER -> Absent]

NativeTables ==
    {NativeTable(kAdd, kMul) : kAdd \in {"desc", "func", "absent"},
                               kMul \in {"func", "service", "data"}}

\* PointerTensor starts with what it inherits from object.
PointerTable0 ==
    [a \in AllNames |-> IF a \in BaseNames THEN Original("desc", a) ELSE Absent]

NoCall == [h |-> 0, attr |-> "", args |-> <<>>, kwargs |-> {}, derived |-> FALSE,
           outcome |-> "none", new_args |-> [kind |-> "raised", id |-> 0, elems |-> <<>>],
           real_kwargs |-> {}]
NoRegistry == [m |-> "", list |-> <<>>, ran |-> FALSE, hooked |-> FALSE]

\* The threads that call overloaded functions, and a thread that is in no call.
Threads == {1, 2}
NoThread == [pc |-> "idle", attr |-> "", args |-> <<>>,
             fn |-> [kind |-> "none", elems |-> <<>>],
             hook_args |-> [kind |-> "none", elems |-> <<>>],
             derived |-> FALSE, outcome |-> "none",
             new_args |-> [kind |-> "raised", id |-> 0, elems |-> <<>>]]

Init ==
    /\ hooks = <<>>
    /\ torch_hooked = {}
    /\ syft_torch = 0
    /\ syft_local_worker = Unset
    /\ worker_hook = 0
    /\ tbl0 \in NativeTables
    /\ tbl = [m \in Modules |-> tbl0]
    /\ ptrTbl = PointerTable0
    /\ dirSyft \in {BaseNames \cup {"_get_type", "id", "native_type"} \cup s :
                        s \in SUBSET {"add", "mul"}}
    /\ exclude \in {{"__eq__"} \cup s : s \in SUBSET {"add", "_get_type"}}
    /\ pc = "idle"
    /\ registry = NoRegistry
    /\ lastCall = NoCall
    /\ derivations = [a \in Ops |-> 0]
    /\ threads = [t \in Threads |-> NoThread]

-----------------------------------------------------------------------------
(* TorchHook objects *)

EmptyDict == [x \in {} |-> <<>>]

NewHook(m, lw) ==
    [torch |-> m, local_worker |-> lw, hasDicts |-> FALSE,
     to_auto_overload |-> EmptyDict, args_hook_for_overloaded_attr |-> EmptyDict]

\* The hook whose __init__ is running, and its module.
cur == Len(hooks)
curTorch == hooks[cur].torch

\* hasattr(torch, "torch_hooked")
AlreadyHookedSkipped(m) == FALSE
AlreadyHooked(m) == m \in torch_hooked

\* The local worker a hook of an already hooked module ends with.
ReusedWorkerKept(lw) == lw
ReusedWorker(lw) == syft_local_worker

\* TorchHook(torch = m, local_worker = lw), up to the marker test: an already
\* hooked module makes it take syft.local_worker and return.
Construct(m, lw) ==
    /\ pc = "idle"
    /\ Len(hooks) < MaxHooks
    /\ IF AlreadyHooked(m)
       THEN /\ hooks' = Append(hooks, [NewHook(m, lw) EXCEPT
                                          !.local_worker = ReusedWorker(lw)])
            /\ UNCHANGED <<torch_hooked, pc>>
       ELSE /\ hooks' = Append(hooks, NewHook(m, lw))
            /\ torch_hooked' = torch_hooked \cup {m}
            /\ pc' = "setup"
    /\ UNCHANGED <<syft_torch, syft_local_worker, worker_hook, tbl, ptrTbl, dirSyft,
                   exclude, tbl0, registry, lastCall, derivations,
                   threads>>

\* syft.torch = TorchAttributes(torch, self); the local worker; the two dicts.
SetupContext ==
    /\ pc = "setup"
    /\ syft_torch' = cur
    /\ IF hooks[cur].local_worker = NoWorker
       THEN /\ hooks' = [hooks EXCEPT ![cur].local_worker = VirtualWorker(cur),
                                       ![cur].hasDicts = TRUE]
            /\ UNCHANGED worker_hook
       ELSE /\ hooks' = [hooks EXCEPT ![cur].hasDicts = TRUE]
            /\ worker_hook' = cur
    /\ pc' = "init"
    /\ UNCHANGED <<torch_hooked, syft_local_worker, tbl, ptrTbl, dirSyft, exclude,
                   tbl0, registry, lastCall, derivations,
                   threads>>

\* _hook_native_tensor: self._add_registration_to___init__(tensor_type, ...)
StepAddRegistration ==
    /\ pc = "init"
    /\ tbl' = [tbl EXCEPT ![curTorch] = AddRegistrationToInit(@, cur)]
    /\ pc' = "props"
    /\ UNCHANGED <<hooks, torch_hooked, syft_torch, syft_local_worker, worker_hook,
                   ptrTbl, dirSyft, exclude, tbl0, registry, lastCall, derivations,
                   threads>>

\* _hook_native_tensor: self._hook_properties(tensor_type)
StepHookProperties ==
    /\ pc = "props"
    /\ tbl' = [tbl EXCEPT ![curTorch] = HookProperties(@)]
    /\ pc' = "which"
    /\ UNCHANGED <<hooks, torch_hooked, syft_torch, syft_local_worker, worker_hook,
                   ptrTbl, dirSyft, exclude, tbl0, registry, lastCall, derivations,
                   threads>>

\* _hook_native_tensor: self.to_auto_overload[tensor_type] = ...
StepWhichMethods ==
    /\ pc = "which"
    /\ hooks' = [hooks EXCEPT ![cur].to_auto_overload =
                    [x \in {curTorch} |->
                        WhichMethodsShouldWeAutoOverload(tbl[curTorch], dirSyft, exclude)]]
    /\ pc' = "rename"
    /\ UNCHANGED <<torch_hooked, syft_torch, syft_local_worker, worker_hook, tbl,
                   ptrTbl, dirSyft, exclude, tbl0, registry, lastCall, derivations,
                   threads>>

\* _hook_native_tensor: self._rename_native_functions(tensor_type)
StepRename ==
    /\ pc = "rename"
    /\ tbl' = [tbl EXCEPT ![curTorch] =
                  RenameNativeFunctions(@, hooks[cur].to_auto_overload[curTorch])]
    /\ pc' = "mixin"
    /\ UNCHANGED <<hooks, torch_hooked, syft_torch, syft_local_worker, worker_hook,
                   ptrTbl, dirSyft, exclude, tbl0, registry, lastCall, derivations,
                   threads>>

\* _hook_native_tensor: self._add_methods_from__torch_tensor(tensor_type, syft_type)
StepMixinNative ==
    /\ pc = "mixin"
    /\ tbl' = [tbl EXCEPT ![curTorch] = AddMethodsFromTorchTensor(@, dirSyft)]
    /\ pc' = "pointer"
    /\ UNCHANGED <<hooks, torch_hooked, syft_torch, syft_local_worker, worker_hook,
                   ptrTbl, dirSyft, exclude, tbl0, registry, lastCall, derivations,
                   threads>>

\* self._add_methods_from__torch_tensor(PointerTensor, TorchTensor)
StepMixinPointer ==
    /\ pc = "pointer"
    /\ ptrTbl' = AddMethodsFromTorchTensor(ptrTbl, dirSyft)
    /\ pc' = "publish"
    /\ UNCHANGED <<hooks, torch_hooked, syft_torch, syft_local_worker, worker_hook,
                   tbl, dirSyft, exclude, tbl0, registry, lastCall, derivations,
                   threads>>

\* syft.local_worker = self.local_worker
StepPublish ==
    /\ pc = "publish"
    /\ syft_local_worker' = hooks[cur].local_worker
    /\ pc' = "idle"
    /\ UNCHANGED <<hooks, torch_hooked, syft_torch, worker_hook, tbl, ptrTbl, dirSyft,
                   exclude, tbl0, registry, lastCall, derivations,
                   threads>>

\* A direct run of hook._which_methods_should_we_auto_overload(m.Tensor, TorchTensor).
RunWhichMethods(m) ==
    /\ pc = "idle"
    /\ syft_torch # 0
    /\ registry' = [m |-> m, ran |-> TRUE, hooked |-> m \in torch_hooked,
                    list |-> WhichMethodsShouldWeAutoOverload(tbl[m], dirSyft, exclude)]
    /\ UNCHANGED <<hooks, torch_hooked, syft_torch, syft_local_worker, worker_hook,
                   tbl, ptrTbl, dirSyft, exclude, tbl0, pc, lastCall, derivations,
                   threads>>

\* A direct run of hooks[h]._rename_native_functions(m.Tensor).
RunRenameNativeFunctions(h, m) ==
    /\ pc = "idle"
    /\ h \in 1..Len(hooks)
    /\ hooks[h].hasDicts
    /\ m \in DOMAIN hooks[h].to_auto_overload
    /\ tbl' = [tbl EXCEPT ![m] = RenameNativeFunctions(@, hooks[h].to_auto_overload[m])]
    /\ UNCHANGED <<hooks, torch_hooked, syft_torch, syft_local_worker, worker_hook,
                   ptrTbl, dirSyft, exclude, tbl0, pc, registry, lastCall, derivations,
                   threads>>

\* The hook: constructions of TorchHook, step by step, and direct runs of
\* the eligibility test and of the preservation step.
Next ==
    \/ \E m \in Modules, lw \in WorkerArgs : Construct(m, lw)
    \/ SetupContext
    \/ StepAddRegistration
    \/ StepHookProperties
    \/ StepWhichMethods
    \/ StepRename
    \/ StepMixinNative
    \/ StepMixinPointer
    \/ StepPublish
    \/ \E m \in Modules : RunWhichMethods(m)
    \/ \E h \in 1..MaxHooks, m \in Modules : RunRenameNativeFunctions(h, m)

Spec == Init /\ [][Next]_vars

\* A call made by the running __init__ after the marker was set raises
\* (TorchAttributes(...), VirtualWorker(...), the setattr on a type, a
\* getattr in a loop over dir(...)): the exception leaves __init__, nothing
\* written so far is undone.
Abort ==
    /\ pc # "idle"
    /\ pc' = "idle"
    /\ UNCHANGED <<hooks, torch_hooked, syft_torch, syft_local_worker, worker_hook,
                   tbl, ptrTbl, dirSyft, exclude, tbl0, registry, lastCall, derivations,
                   threads>>

\* The hook, with constructions that may raise.
NextAbort == Next \/ Abort

\* Before any TorchHook, for a TorchTensor that defines every name and the
\* smallest exclusion set.
InitAbort == Init /\ dirSyft = Names /\ exclude = {"__eq__"}

SpecAbort == InitAbort /\ [][NextAbort]_vars

-----------------------------------------------------------------------------
(* Argument values *)

Value(k, i, e) == [kind |-> k, id |-> i, elems |-> e]
Ptr == Value("ptr", 1, <<>>)        \* a PointerTensor
Log == Value("log", 2, <<>>)        \* an object whose class is named LogTensor
Int5 == Value("int", 5, <<>>)       \* the number 5
Tensor == Value("tensor", 3, <<>>)  \* a native tensor that wraps nothing
List(e) == Value("list", 0, e)
Tuple(e) == Value("tuple", 0, e)
Raised == Value("raised", 0, <<>>)  \* an exception instead of a value

IsSeq(v) == v.kind \in {"list", "tuple"}
\* isinstance(args, PointerTensor) or args.__class__.__name__ == "LogTensor"
IsWrapped(v) == v.kind \in {"ptr", "log"}
\* v.child
Child(v) == Value("tensor", v.id + 10, <<>>)

\* n numbers, and n numbers with a PointerTensor in slot k.
Plain(n) == [i \in 1..n |-> Int5]
WrappedAt(n, k) == [i \in 1..n |-> IF i = k THEN Ptr ELSE Int5]

\* The argument tuples add is called with: numbers in every arity, alone
\* and with a PointerTensor in any one slot; pairs with a LogTensor or a
\* native tensor; a list or tuple before a number, and a short one alone;
\* a list or tuple inside a list or tuple.
AtomTuples ==
    {Plain(n) : n \in 0..MaxArgs} \cup
    UNION {{WrappedAt(n, k) : k \in 1..n} : n \in 1..MaxArgs}
MixedPairs == {<<Log, Int5>>, <<Ptr, Log>>, <<Tensor, Tensor>>}
SeqElems ==
    {Plain(n) : n \in 0..MaxSeqLen} \cup {WrappedAt(n, 1) : n \in 1..MaxSeqLen}
        \cup {<<Int5, Ptr>>, <<Int5, Ptr, Int5>>}
FlatSeqs == {Value(k, 0, e) : k \in {"list", "tuple"}, e \in SeqElems}
DeepSeqs == {Value(k, 0, <<s, Ptr>>) : k \in {"list", "tuple"},
                                       s \in {List(<<Int5, Ptr>>), Tuple(<<Ptr, Int5>>)}}
ArgTuples ==
    AtomTuples \cup MixedPairs
        \cup {<<s, Int5>> : s \in FlatSeqs \cup DeepSeqs}
        \cup {<<s>> : s \in {x \in FlatSeqs : Len(x.elems) <= 2}}

\* The argument tuple mul is called with.
MulArgTuples == {<<Ptr, Int5>>}

ArgsOf(attr) == IF attr = "mul" THEN MulArgTuples ELSE ArgTuples

\* **kwargs as a set of <<name, value>> pairs: a call is made without
\* keywords, and a call of two arguments that are no sequences also with
\* alpha = 2.
NoKwargs == {}
AlphaKwargs == {<<"alpha", 2>>}
KwargsOf(args) ==
    IF Len(args) = 2 /\ \A i \in 1..2 : args[i].kind \notin {"list", "tuple"}
    THEN {NoKwargs, AlphaKwargs} ELSE {NoKwargs}

-----------------------------------------------------------------------------
(* get_overloaded_method *)

Rule(k, e) == [kind |-> k, elems |-> e]
Rule0 == Rule("0", <<>>)
Rule1 == Rule("1", <<>>)

\* build_rule(args)
RECURSIVE build_rule(_)
build_rule(v) ==
    IF IsSeq(v)
    THEN Rule(v.kind, [i \in 1..Len(v.elems) |-> build_rule(v.elems[i])])
    ELSE IF IsWrapped(v) THEN Rule1 ELSE Rule0

\* "not r" for a rule r
Falsy(r) == r = Rule0 \/ (r.kind \in {"list", "tuple"} /\ r.elems = <<>>)

\* The functions build_args_hook makes: the two lambdas and the folds.
Fn(k, e) == [kind |-> k, elems |-> e]
Identity == Fn("id", <<>>)          \* lambda i: i
TakeChild == Fn("child", <<>>)      \* lambda i: i.child
KeyError == Fn("KeyError", <<>>)    \* folds[len(lambdas)] found no fold

\* folds = {1: one_fold, 2: two_fold, 3: three_fold}
Folds == {1, 2, 3}

\* build_args_hook(args, rules); zip pairs every rule with its argument, so
\* the function made depends on the rules alone.
RECURSIVE build_args_hook(_)
build_args_hook(rules) ==
    LET lambdas == [i \in 1..Len(rules.elems) |->
                       IF Falsy(rules.elems[i]) THEN Identity
                       ELSE IF rules.elems[i].kind \in {"list", "tuple"}
                            THEN build_args_hook(rules.elems[i])
                            ELSE TakeChild]
    IN  IF \E i \in 1..Len(lambdas) : lambdas[i] = KeyError THEN KeyError
        ELSE IF Len(lambdas) \notin Folds THEN KeyError
        ELSE Fn("fold", lambdas)

\* one_fold, two_fold, three_fold on results already computed.
Fold(results) == IF Len(results) = 1 THEN results[1] ELSE Tuple(results)

\* f(x) for a function f made by build_args_hook.
RECURSIVE Apply(_, _)
Apply(f, x) ==
    CASE f.kind = "id" -> x
      [] f.kind = "child" -> IF IsWrapped(x) THEN Child(x) ELSE Raised
      [] OTHER ->
           IF ~IsSeq(x) \/ Len(x.elems) < Len(f.elems) THEN Raised
           ELSE LET results == [i \in 1..Len(f.elems) |-> Apply(f.elems[i], x.elems[i])]
                IN  IF \E i \in 1..Len(results) : results[i] = Raised THEN Raised
                    ELSE Fold(results)

\* attr(*new_args): a list or tuple is passed element by element; any other
\* value is iterated, which raises unless the value is iterable and then
\* passes the items of the value.
StarCall(v) == IF IsSeq(v) THEN "returned" ELSE "iterated"

\* attr(*new_args): the keywords the real operation is called with.
PassedKwargs(kwargs) == NoKwargs

Call(h, attr, args, kwargs, derived, outcome, new_args) ==
    [h |-> h, attr |-> attr, args |-> args, kwargs |-> kwargs, derived |-> derived,
     outcome |-> outcome, new_args |-> new_args,
     real_kwargs |-> IF outcome = "raised" THEN NoKwargs ELSE PassedKwargs(kwargs)]

\* hooks[h].get_overloaded_method(attr)(*args, **kwargs)
overloaded_attr(h, attr, args, kwargs) ==
    /\ pc = "idle"
    /\ h \in 1..Len(hooks)
    /\ IF ~hooks[h].hasDicts
       THEN /\ lastCall' = Call(h, attr, args, kwargs, FALSE, "raised", Raised)
            /\ UNCHANGED <<hooks, derivations>>
       ELSE LET cache == hooks[h].args_hook_for_overloaded_attr
                miss == attr \notin DOMAIN cache
                built == build_args_hook(build_rule(Tuple(args)))
                hook_args == IF miss THEN built ELSE cache[attr]
                new_args == Apply(hook_args, Tuple(args))
            IN  /\ miss => derivations[attr] < MaxDerive
                /\ derivations' = IF miss THEN [derivations EXCEPT ![attr] = @ + 1]
                                  ELSE derivations
                /\ hooks' = IF miss /\ built # KeyError
                            THEN [hooks EXCEPT ![h].args_hook_for_overloaded_attr =
                                     [a \in DOMAIN cache \cup {attr} |->
                                         IF a = attr THEN built ELSE cache[a]]]
                            ELSE hooks
                /\ lastCall' =
                      IF hook_args = KeyError \/ new_args = Raised
                      THEN Call(h, attr, args, kwargs, miss, "raised", Raised)
                      ELSE Call(h, attr, args, kwargs, miss, StarCall(new_args), new_args)
    /\ UNCHANGED <<torch_hooked, syft_torch, syft_local_worker, worker_hook, tbl,
                   ptrTbl, dirSyft, exclude, tbl0, pc, registry, threads>>

\* The state TorchHook(m1) followed by a second TorchHook(m1) leaves, for a
\* Tensor type that defines add and mul.
HookedTable(t, d, excl, h) ==
    LET t1 == HookProperties(AddRegistrationToInit(t, h))
    IN  AddMethodsFromTorchTensor(
            RenameNativeFunctions(t1, WhichMethodsShouldWeAutoOverload(t1, d, excl)), d)

InitCall ==
    /\ tbl0 = NativeTable("desc", "func")
    /\ dirSyft = Names
    /\ exclude = {"__eq__", "_get_type"}
    /\ tbl = [m \in Modules |->
                IF m = "m1" THEN HookedTable(tbl0, dirSyft, exclude, 1) ELSE tbl0]
    /\ ptrTbl = AddMethodsFromTorchTensor(PointerTable0, dirSyft)
    /\ hooks = <<[NewHook("m1", VirtualWorker(1)) EXCEPT
                    !.hasDicts = TRUE,
                    !.to_auto_overload =
                        [x \in {"m1"} |-> WhichMethodsShouldWeAutoOverload(
                            HookProperties(AddRegistrationToInit(tbl0, 1)),
                            dirSyft, exclude)]],
                 NewHook("m1", VirtualWorker(1))>>
    /\ torch_hooked = {"m1"}
    /\ syft_torch = 1
    /\ syft_local_worker = VirtualWorker(1)
    /\ worker_hook = 0
    /\ pc = "idle"
    /\ registry = NoRegistry
    /\ lastCall = NoCall
    /\ derivations = [a \in Ops |-> 0]
    /\ threads = [t \in Threads |-> NoThread]

\* Calls of overloaded functions, from the state InitCall (a state Spec
\* reaches): hook 1 ran the setup and holds the cache, hook 2 returned at
\* the marker test and holds none.
NextCall ==
    \E h \in 1..2, attr \in Ops : \E args \in ArgsOf(attr) : \E kwargs \in KwargsOf(args) :
        overloaded_attr(h, attr, args, kwargs)

SpecCall == InitCall /\ [][NextCall]_vars

-----------------------------------------------------------------------------
(* get_overloaded_method called from two threads *)

\* The hook whose overloaded functions the threads call.
RaceHook == 1

\* The argument tuples the threads call with: a wrapped value in the first
\* or in the second of two slots, two numbers, three arguments, and as
\* many arguments as no fold exists for.
RaceArgTuples ==
    {<<Ptr, Int5>>, <<Log, Int5>>, <<Int5, Ptr>>, <<Int5, Int5>>, <<Ptr, Int5, Int5>>,
     WrappedAt(MaxArgs, 1)}

RaceArgsOf(attr) == IF attr = "mul" THEN MulArgTuples ELSE RaceArgTuples

DictStoreTorn(cache, attr, fn) ==
    [a \in DOMAIN cache \cup {attr} |->
        IF a = attr THEN Fn(fn.kind, SubSeq(fn.elems, 1, 1)) ELSE cache[a]]

\* hook_self.args_hook_for_overloaded_attr[attr] = args_hook_function: the
\* store of one reference into the dict.
DictStore(cache, attr, fn) ==
    [a \in DOMAIN cache \cup {attr} |-> IF a = attr THEN fn ELSE cache[a]]

RaceFrame == UNCHANGED <<torch_hooked, syft_torch, syft_local_worker, worker_hook, tbl,
                         ptrTbl, dirSyft, exclude, tbl0, pc, registry, lastCall>>

\* Thread t calls hooks[RaceHook].get_overloaded_method(attr)(*args).
ThreadEnter(t, attr, args) ==
    /\ pc = "idle"
    /\ threads[t].pc = "idle"
    /\ threads' = [threads EXCEPT ![t] = [NoThread EXCEPT !.pc = "test", !.attr = attr,
                                                            !.args = args]]
    /\ UNCHANGED <<hooks, derivations>>
    /\ RaceFrame

\* if attr not in hook_self.args_hook_for_overloaded_attr:
ThreadTest(t) ==
    /\ threads[t].pc = "test"
    /\ LET miss == threads[t].attr \notin DOMAIN hooks[RaceHook].args_hook_for_overloaded_attr
       IN  threads' = [threads EXCEPT ![t].derived = miss,
                                      ![t].pc = IF miss THEN "build" ELSE "read"]
    /\ UNCHANGED <<hooks, derivations>>
    /\ RaceFrame

\* rule = build_rule(args); args_hook_function = build_args_hook(args, rule)
ThreadBuild(t) ==
    /\ threads[t].pc = "build"
    /\ derivations[threads[t].attr] < MaxDerive
    /\ derivations' = [derivations EXCEPT ![threads[t].attr] = @ + 1]
    /\ LET built == build_args_hook(build_rule(Tuple(threads[t].args)))
       IN  threads' = [threads EXCEPT
                          ![t].fn = built,
                          ![t].outcome = IF built = KeyError THEN "raised" ELSE @,
                          ![t].pc = IF built = KeyError THEN "done" ELSE "store"]
    /\ UNCHANGED hooks
    /\ RaceFrame

\* hook_self.args_hook_for_overloaded_attr[attr] = args_hook_function
ThreadStore(t) ==
    /\ threads[t].pc = "store"
    /\ hooks' = [hooks EXCEPT ![RaceHook].args_hook_for_overloaded_attr =
                     DictStore(@, threads[t].attr, threads[t].fn)]
    /\ threads' = [threads EXCEPT ![t].pc = "read"]
    /\ UNCHANGED derivations
    /\ RaceFrame

\* hook_args = hook_self.args_hook_for_overloaded_attr[attr]
ThreadRead(t) ==
    /\ threads[t].pc = "read"
    /\ threads' = [threads EXCEPT
                      ![t].hook_args =
                          hooks[RaceHook].args_hook_for_overloaded_attr[threads[t].attr],
                      ![t].pc = "call"]
    /\ UNCHANGED <<hooks, derivations>>
    /\ RaceFrame

\* new_args = hook_args(args); return attr(*new_args)
ThreadCall(t) ==
    /\ threads[t].pc = "call"
    /\ LET new_args == Apply(threads[t].hook_args, Tuple(threads[t].args))
       IN  threads' = [threads EXCEPT
                          ![t].new_args = new_args,
                          ![t].outcome = IF new_args = Raised THEN "raised"
                                         ELSE StarCall(new_args),
                          ![t].pc = "done"]
    /\ UNCHANGED <<hooks, derivations>>
    /\ RaceFrame

\* The call of thread t has returned or raised; the thread is free again.
ThreadReturn(t) ==
    /\ threads[t].pc = "done"
    /\ threads' = [threads EXCEPT ![t] = NoThread]
    /\ UNCHANGED <<hooks, derivations>>
    /\ RaceFrame

\* Two threads calling overloaded functions of the hook of InitCall, their
\* statements interleaved.
NextRace ==
    \/ \E t \in Threads, attr \in Ops : \E args \in RaceArgsOf(attr) :
          ThreadEnter(t, attr, args)
    \/ \E t \in Threads : ThreadTest(t)
    \/ \E t \in Threads : ThreadBuild(t)
    \/ \E t \in Threads : ThreadStore(t)
    \/ \E t \in Threads : ThreadRead(t)
    \/ \E t \in Threads : ThreadCall(t)
    \/ \E t \in Threads : ThreadReturn(t)

SpecRace == InitCall /\ [][NextRace]_vars

-----------------------------------------------------------------------------
(* Properties of the hook *)

\* The hooks that ran the setup, and the first hook of a module.
EffectiveHooks == {h \in 1..Len(hooks) : hooks[h].hasDicts}
HooksOf(m) == {h \in 1..Len(hooks) : hooks[h].torch = m}
FirstHookOf(m) == CHOOSE h \in HooksOf(m) : \A g \in HooksOf(m) : h <= g
LastEffectiveHook == CHOOSE h \in EffectiveHooks : \A g \in EffectiveHooks : g <= h
ListSet(list) == {list[i] : i \in 1..Len(list)}

\* The step in which TorchHook(...) is constructed against a hooked module.
ReHookStep ==
    /\ pc = "idle"
    /\ Len(hooks') = Len(hooks) + 1
    /\ hooks'[Len(hooks')].torch \in torch_hooked

\* C1: hooking a module that is already hooked is a no-op on the recorded
\* eligible lists, on the native_<name> originals and on what is bound under
\* every name: the construction returns at once and leaves them as the first
\* hook left them.
C1_RehookIdempotent ==
    [][ReHookStep =>
          /\ pc' = "idle"
          /\ tbl' = tbl
          /\ ptrTbl' = ptrTbl
          /\ \A h \in 1..Len(hooks) :
                hooks'[h].to_auto_overload = hooks[h].to_auto_overload]_vars

C1_Witness ==
    /\ pc = "idle"
    /\ Len(hooks) >= 2
    /\ hooks[1].torch = hooks[2].torch
    /\ hooks[1].to_auto_overload[hooks[1].torch] # <<>>
    /\ tbl[hooks[1].torch] # tbl0

\* C4: once the preservation step has run for an eligible name X of a
\* Tensor type, native_X is what X was bound to before the hook, and no
\* step ever rebinds a native_X that exists.
C4_NativePreserved ==
    /\ [](\A h \in 1..Len(hooks) : \A m \in DOMAIN hooks[h].to_auto_overload :
            (h = cur /\ pc = "rename") \/
            \A x \in ListSet(hooks[h].to_auto_overload[m]) :
                tbl[m][NativeName(x)] = tbl0[x])
    /\ [][\A m \in Modules : \A x \in Names :
             HasAttr(tbl[m], NativeName(x)) =>
                 tbl'[m][NativeName(x)] = tbl[m][NativeName(x)]]_vars

\* A direct, later run of the preservation step has cleared add again and
\* native_add is still the original.
C4_Witness ==
    /\ pc = "idle"
    /\ \E m \in torch_hooked :
          /\ "add" \in ListSet(hooks[FirstHookOf(m)].to_auto_overload[m])
          /\ tbl[m]["add"] = NonePlaceholder
          /\ tbl[m][NativeName("add")] = tbl0["add"]
          /\ HasAttr(tbl0, "add")

\* A step that runs _rename_native_functions: inside a hook, or directly.
RenameStep ==
    \/ pc = "rename" /\ pc' = "mixin"
    \/ pc = "idle" /\ pc' = "idle" /\ tbl' # tbl

\* C7: no name of syft.torch.exclude is in a list the eligibility test
\* returns, and the preservation step neither renames nor clears one.
C7_ExcludedNeverEligible ==
    /\ [](/\ \A h \in 1..Len(hooks) : \A m \in DOMAIN hooks[h].to_auto_overload :
               ListSet(hooks[h].to_auto_overload[m]) \cap exclude = {}
          /\ ListSet(registry.list) \cap exclude = {})
    /\ [][RenameStep =>
             \A m \in Modules : \A x \in exclude :
                 /\ tbl'[m][x] = tbl[m][x]
                 /\ tbl'[m][NativeName(x)] = tbl[m][NativeName(x)]]_vars

\* The preservation step has just run on a type that defines add as an
\* operation, with add excluded: add is untouched.
C7_Witness ==
    /\ pc = "mixin"
    /\ "add" \in exclude
    /\ "add" \in dirSyft
    /\ tbl0["add"].kind \in {"desc", "func"}
    /\ tbl[curTorch]["add"] = tbl0["add"]
    /\ ~HasAttr(tbl[curTorch], NativeName("add"))
    /\ hooks[cur].to_auto_overload[curTorch] # <<>>

C9_TrampolineInstalled ==
    pc = "idle" =>
        \A h \in EffectiveHooks : \A m \in DOMAIN hooks[h].to_auto_overload :
            \A x \in ListSet(hooks[h].to_auto_overload[m]) :
                tbl[m][x] = OverloadedAttr(h, x)

\* C10: when a hook that ran the setup completes, every attribute name of
\* TorchTensor outside the installer's exclude list is bound, on the Tensor
\* type and on PointerTensor, to TorchTensor's attribute of that name.
C10_UniformSurface ==
    [][pc = "publish" /\ pc' = "idle" =>
          \A a \in dirSyft \ MixinExclude :
              /\ tbl'[hooks[Len(hooks)].torch][a] = SyftAttr(a)
              /\ ptrTbl'[a] = SyftAttr(a)]_vars

C10_Witness ==
    /\ pc = "idle"
    /\ \E m \in torch_hooked :
          /\ "add" \in dirSyft
          /\ tbl0["add"].kind = "desc"
          /\ tbl[m]["add"] = SyftAttr("add")
          /\ ptrTbl["add"] = SyftAttr("add")
          /\ tbl[m]["id"] = SyftAttr("id")

\* A step that runs the eligibility test, the list it returns and the
\* Tensor table it ran on: inside a hook, or directly.
WhichInHook == pc = "which" /\ pc' = "rename"
WhichDirect == pc = "idle" /\ registry' # registry

\* The position of a name in dir(TorchTensor).
DirPos(a) == CHOOSE i \in 1..Len(DirOrder) : DirOrder[i] = a
InDirOrder(list) ==
    \A i, j \in 1..Len(list) : i < j => DirPos(list[i]) < DirPos(list[j])

\* callable(b), and b is what the type inherits from object.
IsCallable(b) == b.kind \in {"desc", "func", "service", "new_init"}
                 \/ (b.kind = "syft" /\ b.of \notin SyftProperties)
InheritedFromObject(b) == b.kind = "desc" /\ b.of \in BaseNames
HasNativePrefix(a) == a \in {"native_type"} \cup {NativeName(x) : x \in Names}

\* The names C14 claims eligible on table t.
ClaimedEligible(t) ==
    {a \in dirSyft \ exclude :
        /\ IsCallable(t[a]) /\ ~InheritedFromObject(t[a])
        /\ ~IsServiceFunc(t[a])
        /\ ~HasNativePrefix(a)}

TestedEligible(t) ==
    {a \in dirSyft \ exclude :
        /\ t[a].kind \in {"desc", "func", "new_init"}
           \/ (t[a].kind = "syft" /\ a \notin SyftProperties)
        /\ a \notin BaseNames
        /\ ~HasNativePrefix(a)}

C15_RunsAgree ==
    registry.ran =>
        \A h \in EffectiveHooks :
            registry.m \in DOMAIN hooks[h].to_auto_overload =>
                registry.list = hooks[h].to_auto_overload[registry.m]

\* The steps that run _add_methods_from__torch_tensor.
MixinNativeStep == pc = "mixin" /\ pc' = "pointer"
MixinPointerStep == pc = "pointer" /\ pc' = "publish"

\* C16: a run of the installer changes no binding of its target under a
\* name of its exclude list, and when the hook has completed __init__ of
\* the Tensor type is the constructor the first hook of the module installed.
C16_MixinKeepsProtocolNames ==
    /\ [][/\ MixinNativeStep =>
               \A a \in MixinExclude \cap AllNames :
                   tbl'[curTorch][a] = tbl[curTorch][a]
          /\ MixinPointerStep =>
               \A a \in MixinExclude \cap AllNames : ptrTbl'[a] = ptrTbl[a]]_vars
    /\ [](pc = "idle" =>
              \A m \in torch_hooked : tbl[m]["__init__"] = NewInit(FirstHookOf(m)))

\* A hook has completed on a type whose _get_type was eligible: the
\* installer copied add and left __init__, __eq__ and _get_type as the
\* earlier steps left them, on PointerTensor as object defines them.
C16_Witness ==
    /\ pc = "idle"
    /\ \E m \in torch_hooked :
          /\ {"__init__", "__eq__", "_get_type", "add"} \subseteq dirSyft
          /\ tbl[m]["add"] = SyftAttr("add")
          /\ tbl[m]["__init__"] = NewInit(FirstHookOf(m))
          /\ tbl[m]["__eq__"] = tbl0["__eq__"]
          /\ tbl[m]["_get_type"] = NonePlaceholder
          /\ ptrTbl["__init__"] = PointerTable0["__init__"]
          /\ ptrTbl["add"] = SyftAttr("add")

\* C19 as claimed: when the first hook of a Tensor type completes, every
\* name of the eligible list it recorded is bound on the type to a callable,
\* none to the placeholder None.
C19_NoEligibleLeftOnNone ==
    [][pc = "publish" /\ pc' = "idle" =>
          \A x \in ListSet(hooks[cur].to_auto_overload[curTorch]) :
              /\ tbl'[curTorch][x] # NonePlaceholder
              /\ IsCallable(tbl'[curTorch][x])]_vars

\* The whole setup has completed for module m.
FullySetUp(m) ==
    LET h == FirstHookOf(m)
    IN  /\ hooks[h].hasDicts
        /\ m \in DOMAIN hooks[h].to_auto_overload
        /\ \A x \in ListSet(hooks[h].to_auto_overload[m]) : HasAttr(tbl[m], NativeName(x))
        /\ \A a \in dirSyft \ MixinExclude : HasAttr(tbl[m], a) /\ HasAttr(ptrTbl, a)
        /\ syft_local_worker \notin {Unset, NoWorker}

\* C18 as claimed: whenever a module carries the marker and no __init__ is
\* running, the whole setup has completed for it, and every hook
\* constructed against it has a local worker.
C18_HookedImpliesSetUp ==
    pc = "idle" =>
        /\ \A m \in torch_hooked : FullySetUp(m)
        /\ \A h \in 1..Len(hooks) :
              hooks[h].hasDicts \/ hooks[h].local_worker \notin {Unset, NoWorker}

-----------------------------------------------------------------------------
(* Properties of the overloaded functions *)

\* What the real operation was called with.
RealArgs == lastCall.new_args.elems

\* The first call of an overloaded function: it found no cached function
\* and ran build_rule, and build_rule had not run for the operation before.
FirstCall == lastCall.derived /\ derivations[lastCall.attr] = 1

AllAtoms(args) == \A i \in 1..Len(args) : ~IsSeq(args[i])

\* v with every wrapped value in it replaced by its child, lists staying
\* lists and tuples staying tuples.
RECURSIVE Unwrapped(_)
Unwrapped(v) ==
    IF IsSeq(v) THEN Value(v.kind, v.id, [i \in 1..Len(v.elems) |-> Unwrapped(v.elems[i])])
    ELSE IF IsWrapped(v) THEN Child(v) ELSE v

\* C2 as claimed: a first call with n >= 1 arguments, one of them wrapped,
\* calls the real operation with n arguments, the wrapped ones replaced by
\* their child and the others as they were.
C2_UnwrapsAtPosition ==
    (/\ FirstCall
     /\ Len(lastCall.args) >= 1
     /\ AllAtoms(lastCall.args)
     /\ \E k \in 1..Len(lastCall.args) : IsWrapped(lastCall.args[k]))
    => /\ lastCall.outcome = "returned"
       /\ Len(RealArgs) = Len(lastCall.args)
       /\ \A i \in 1..Len(lastCall.args) :
             RealArgs[i] = IF IsWrapped(lastCall.args[i]) THEN Child(lastCall.args[i])
                           ELSE lastCall.args[i]

\* C3 as claimed: a list or tuple argument reaches the real operation as a
\* sequence of the same type and length, its wrapped elements unwrapped.
C3_SequenceRebuilt ==
    (/\ FirstCall
     /\ \E i \in 1..Len(lastCall.args) : IsSeq(lastCall.args[i]))
    => /\ lastCall.outcome = "returned"
       /\ Len(RealArgs) = Len(lastCall.args)
       /\ \A i \in 1..Len(lastCall.args) :
             IsSeq(lastCall.args[i]) => RealArgs[i] = Unwrapped(lastCall.args[i])

\* C5 as claimed: build_rule runs at most once for an operation.
C5_DerivedOnce == \A a \in Ops : derivations[a] <= 1

\* C6 as claimed: a first call with any number of arguments does not raise
\* and calls the real operation with as many arguments as it was given.
C6_EveryShapeCallable ==
    FirstCall =>
        /\ lastCall.outcome = "returned"
        /\ Len(RealArgs) = Len(lastCall.args)

\* The function the cache of the called hook holds for the called operation.
HasCached == /\ lastCall.h \in 1..Len(hooks)
             /\ hooks[lastCall.h].hasDicts
             /\ lastCall.attr \in DOMAIN hooks[lastCall.h].args_hook_for_overloaded_attr
CachedFn == hooks[lastCall.h].args_hook_for_overloaded_attr[lastCall.attr]

\* A later call: it found the function of an earlier call in the cache.
LaterCall == HasCached /\ ~lastCall.derived /\ lastCall.outcome # "none"

IsPlain(v) == ~IsSeq(v) /\ ~IsWrapped(v)

\* C11 as claimed: with the function built from add(pointerValue, 5) in the
\* cache, a later call add(x, y) of two plain values calls the real
\* operation with x and y as they are.
C11_PlainPairPassedUnchanged ==
    (/\ LaterCall
     /\ lastCall.attr = "add"
     /\ CachedFn = build_args_hook(build_rule(Tuple(<<Ptr, Int5>>)))
     /\ Len(lastCall.args) = 2
     /\ IsPlain(lastCall.args[1]) /\ IsPlain(lastCall.args[2]))
    => /\ lastCall.outcome = "returned"
       /\ RealArgs = lastCall.args

\* C12 as claimed: a later call with a number of arguments other than the
\* number the cached function was built from raises; it never calls the
\* real operation.
C12_ArityMismatchRaises ==
    (/\ LaterCall
     /\ CachedFn.kind = "fold"
     /\ Len(lastCall.args) # Len(CachedFn.elems))
    => lastCall.outcome # "returned"

\* C13 as claimed: the real operation is called with the keyword
\* arguments the overloaded function was called with.
C13_KwargsPassedOn ==
    lastCall.outcome = "returned" => lastCall.real_kwargs = lastCall.kwargs

-----------------------------------------------------------------------------
(* Properties of calls from two threads *)

\* Threads t and u are both in a first call of one operation: each found
\* the cache entry absent, derived a function and stored it, and their
\* arguments have the same number and the same wrapped / plain pattern.
RacingFirstCalls(t, u) ==
    /\ t # u
    /\ threads[t].derived /\ threads[u].derived
    /\ threads[t].attr = threads[u].attr
    /\ threads[t].fn # KeyError /\ threads[u].fn # KeyError
    /\ threads[t].pc \in {"read", "call", "done"}
    /\ threads[u].pc \in {"read", "call", "done"}
    /\ build_rule(Tuple(threads[t].args)) = build_rule(Tuple(threads[u].args))

\* What a call with args passes on when it runs alone after a first call
\* with firstArgs, or as the first call itself.
Sequential(firstArgs, args) ==
    Apply(build_args_hook(build_rule(Tuple(firstArgs))), Tuple(args))

\* C17: two racing first calls of the same shape derive equal functions,
\* each reads from the cache a whole function, one of the two stored, and
\* passes to the real operation what it passes in a sequential execution.
C17_RacingFirstCallsAgree ==
    \A t, u \in Threads :
        RacingFirstCalls(t, u) =>
            /\ threads[t].fn = threads[u].fn
            /\ hooks[RaceHook].args_hook_for_overloaded_attr[threads[t].attr]
                   \in {threads[t].fn, threads[u].fn}
            /\ threads[t].pc \in {"call", "done"} =>
                   threads[t].hook_args \in {threads[t].fn, threads[u].fn}
            /\ threads[t].pc = "done" =>
                   /\ threads[t].new_args = Sequential(threads[t].args, threads[t].args)
                   /\ threads[t].new_args = Sequential(threads[u].args, threads[t].args)
                   /\ threads[t].outcome = "returned"

\* Both threads derived, one from add(pointerValue, 5) and one from
\* add(logValue, 5), and both calls have returned.
C17_Witness ==
    /\ RacingFirstCalls(1, 2)
    /\ threads[1].pc = "done" /\ threads[2].pc = "done"
    /\ threads[1].args = <<Ptr, Int5>>
    /\ threads[2].args = <<Log, Int5>>
    /\ threads[1].new_args = Tuple(<<Child(Ptr), Int5>>)
    /\ threads[2].new_args = Tuple(<<Child(Log), Int5>>)
    /\ derivations["add"] = 2

====
